---- MODULE Spec2Model ----
(***************************************************************************)
(* leavex-tools: the record normalisation and merge scripts.               *)
(*                                                                         *)
(*   apply_meps_overrides.py   index, normalise and override MEP records   *)
(*   deduplicate_mps_de.py     merge raw rows into one record per qid      *)
(*   get_de_mps_wikidata.py    merge SPARQL bindings into one per qid      *)
(*   csv_to_json.py            turn CSV rows into MEP records              *)
(*                                                                         *)
(* One behaviour is one run of one script (prog).  JSON values are tagged  *)
(* tuples of strings; a Python str is the tag "str" followed by its        *)
(* characters, one string per character (a non-ASCII character is named:   *)
(* "uuml", "endash"), so that strip, lstrip, find, split and endswith are  *)
(* computed on characters as the code computes them.  A JSON object is a   *)
(* function from the keys it has to values; an absent key is absent from   *)
(* the function's domain.                                                  *)
(***************************************************************************)
EXTENDS Naturals, Sequences, FiniteSets, TLC

VARIABLES prog, pc, shape, base_data, overrides, index, i, diag, output,
          r, mps, data, arg, ret

vars == <<prog, pc, shape, base_data, overrides, index, i, diag, output,
          r, mps, data, arg, ret>>

----------------------------------------------------------------------------
(* JSON / Python values *)

Null == <<"null">>

True == <<"bool", "true">>

False == <<"bool", "false">>

Int(d) == <<"int", d>>

\* A JSON array, by the names of its elements.
List(xs) == <<"list">> \o xs

Str(s) == <<"str">> \o s

IsStr(v) == v[1] = "str"

StrOf(v) == Tail(v)

\* Python truthiness of a value: None, False, 0 and "" are falsy.
Truthy(v) == v \notin {Null, False, Int("0"), Str(<<>>)}

\* dict.get(k): the value, or None when the key is absent.
Get(obj, k) == IF k \in DOMAIN obj THEN obj[k] ELSE Null

\* obj[k] = v
Put(obj, k, v) == [f \in DOMAIN obj \cup {k} |-> IF f = k THEN v ELSE obj[f]]

\* obj.update(other): every key of other is written onto obj.
Update(obj, other) ==
  [f \in DOMAIN obj \cup DOMAIN other |-> IF f \in DOMAIN other THEN other[f] ELSE obj[f]]

EmptyObj == [f \in {} |-> Null]

\* An element of a JSON list that is no object (a number, say), held where the
\* code expects a record: it has none of a record's keys.
NonDict(v) == [nondict |-> v]

\* isinstance(obj, dict)
IsDict(obj) == "nondict" \notin DOMAIN obj

\* Whether hash(v) succeeds: a list is unhashable and cannot be a dict key.
Hashable(v) == v[1] # "list"

----------------------------------------------------------------------------
(* str methods, on sequences of characters *)

Whitespace == {" ", "\t"}

\* s.lstrip(chars): from the first character outside cs on.
LStripSet(s, cs) ==
  LET keep == {k \in 1..Len(s) : s[k] \notin cs}
  IN IF keep = {} THEN <<>>
     ELSE SubSeq(s, CHOOSE k \in keep : \A j \in keep : k <= j, Len(s))

\* s.rstrip(chars): up to the last character outside cs.
RStripSet(s, cs) ==
  LET keep == {k \in 1..Len(s) : s[k] \notin cs}
  IN IF keep = {} THEN <<>>
     ELSE SubSeq(s, 1, CHOOSE k \in keep : \A j \in keep : k >= j)

\* s.strip(chars)
StripSet(s, cs) == RStripSet(LStripSet(s, cs), cs)

\* s.strip()
Strip(s) == StripSet(s, Whitespace)

\* s.startswith(p)
StartsWith(s, p) == Len(s) >= Len(p) /\ SubSeq(s, 1, Len(p)) = p

\* s.endswith(p)
EndsWith(s, p) == Len(s) >= Len(p) /\ SubSeq(s, Len(s) - Len(p) + 1, Len(s)) = p

\* s.find(p) + 1: the 1-based place of the first occurrence of p, 0 when none.
Find(s, p) ==
  LET hits == {k \in 1..(Len(s) + 1) : k + Len(p) - 1 <= Len(s) /\ SubSeq(s, k, k + Len(p) - 1) = p}
  IN IF hits = {} THEN 0 ELSE CHOOSE k \in hits : \A j \in hits : k <= j

\* p in s
Contains(s, p) == Find(s, p) > 0

\* s.split(sep)[0] for a one-character sep
SplitFirst(s, sep) ==
  LET k == Find(s, <<sep>>) IN IF k = 0 THEN s ELSE SubSeq(s, 1, k - 1)

\* s.split(sep, 1)[1] for a one-character sep that occurs in s
SplitRest(s, sep) == SubSeq(s, Find(s, <<sep>>) + 1, Len(s))

\* s.replace(p, "") for a p no occurrence of which overlaps another ("mailto:"):
\* the characters of s outside every occurrence of p, in order.
RemoveAll(s, p) ==
  LET starts == {k \in 1..Len(s) : k + Len(p) - 1 <= Len(s) /\ SubSeq(s, k, k + Len(p) - 1) = p}
      kept == {k \in 1..Len(s) : \A j \in starts : k < j \/ k >= j + Len(p)}
  IN [n \in 1..Cardinality(kept) |->
        s[CHOOSE k \in kept : Cardinality({j \in kept : j <= k}) = n]]

UpperCase == <<"A","B","C","D","E","F","G","H","I","J","K","L","M","N","O","P","Q","R","S","T","U","V","W","X","Y","Z">>

LowerCase == <<"a","b","c","d","e","f","g","h","i","j","k","l","m","n","o","p","q","r","s","t","u","v","w","x","y","z">>

Digits == <<"0","1","2","3","4","5","6","7","8","9">>

Range(s) == {s[k] : k \in 1..Len(s)}

LowerChar(c) ==
  IF c \in Range(UpperCase)
  THEN LowerCase[CHOOSE k \in 1..26 : UpperCase[k] = c]
  ELSE c

\* s.lower()
Lower(s) == [k \in 1..Len(s) |-> LowerChar(s[k])]

----------------------------------------------------------------------------
(* urllib.parse.urlparse, as called at apply_meps_overrides.py:66.  The    *)
(* inputs hold no control character, bracket or ';', so the parse never    *)
(* raises and the params split is empty.                                   *)

\* urllib's scheme_chars
SchemeChars == Range(UpperCase) \cup Range(LowerCase) \cup Range(Digits) \cup {"+", "-", "."}

\* The place of the first of '/', '?', '#' in s, Len(s) + 1 when none (_splitnetloc).
FirstDelim(s) ==
  LET hits == {k \in 1..Len(s) : s[k] \in {"/", "?", "#"}}
  IN IF hits = {} THEN Len(s) + 1 ELSE CHOOSE k \in hits : \A j \in hits : k <= j

\* The query and path split ('?' in url), closing the parse.
urlsplit_query(scheme, netloc, url, fragment) ==
  [scheme |-> scheme, netloc |-> netloc, path |-> SplitFirst(url, "?"),
   query |-> IF Contains(url, <<"?">>) THEN SplitRest(url, "?") ELSE <<>>,
   fragment |-> fragment]

\* The fragment split ('#' in url).
urlsplit_fragment(scheme, netloc, url) ==
  urlsplit_query(scheme, netloc, SplitFirst(url, "#"),
                 IF Contains(url, <<"#">>) THEN SplitRest(url, "#") ELSE <<>>)

\* _splitnetloc(url, 2), rest being url[2:] and d the place of its first delimiter.
urlsplit_netloc_at(scheme, rest, d) ==
  urlsplit_fragment(scheme, SubSeq(rest, 1, d - 1), SubSeq(rest, d, Len(rest)))

\* if url[:2] == '//': the netloc is split off.
urlsplit_netloc(scheme, url) ==
  IF StartsWith(url, <<"/","/">>)
  THEN urlsplit_netloc_at(scheme, SubSeq(url, 3, Len(url)), FirstDelim(SubSeq(url, 3, Len(url))))
  ELSE urlsplit_fragment(scheme, <<>>, url)

\* The scheme split, c being url.find(':') + 1.
urlsplit_scheme(url, c) ==
  IF /\ c > 1
     /\ url[1] \in Range(UpperCase) \cup Range(LowerCase)
     /\ \A k \in 1..(c - 1) : url[k] \in SchemeChars
  THEN urlsplit_netloc(Lower(SubSeq(url, 1, c - 1)), SubSeq(url, c + 1, Len(url)))
  ELSE urlsplit_netloc(<<>>, url)

urlparse(v) == urlsplit_scheme(LStripSet(v, {" "}), Find(LStripSet(v, {" "}), <<":">>))

----------------------------------------------------------------------------
(* apply_meps_overrides.py: the handle extractor and the consistency       *)
(* normaliser                                                              *)

\* `x or None` on a str
OrNone(s) == IF s = <<>> THEN Null ELSE Str(s)

\* Lines 71-74: the first segment of the path stripped of '/', path being that.
first_segment(path) == IF path = <<>> THEN Null ELSE OrNone(SplitFirst(path, "/"))

\* Lines 69-75, p being the parsed URL.
extract_handle_url(p) ==
  IF EndsWith(Lower(p.netloc), <<"x",".","c","o","m">>) \/ EndsWith(Lower(p.netloc), <<"t","w","i","t","t","e","r",".","c","o","m">>)
  THEN first_segment(StripSet(p.path, {"/"}))
  ELSE Null

\* Lines 60-78, s being v.strip().
extract_handle_str(s) ==
  IF s = <<>> THEN Null
  ELSE IF Contains(s, <<":","/","/">>) THEN extract_handle_url(urlparse(s))
  ELSE OrNone(Strip(LStripSet(s, {"@"})))

\* Lines 54-78
extract_handle(v) ==
  IF v = Null THEN Null
  ELSE IF ~IsStr(v) THEN Null
  ELSE extract_handle_str(Strip(StrOf(v)))

\* Lines 102-107: no handle present.
normalize_no_handle(obj) ==
  IF Get(obj, "usesX") = False THEN Put(obj, "xHandle", Null) ELSE obj

\* A plausible slip: the explicit-false branch (lines 91-93) is lost.
normalize_x_fields_with_NoFalseBranch(obj, uses, handle) ==
  IF Truthy(handle)
  THEN IF uses = Null
       THEN Put(Put(obj, "xHandle", Str(<<"@">> \o StrOf(handle))), "usesX", True)
       ELSE Put(obj, "xHandle", Str(<<"@">> \o StrOf(handle)))
  ELSE normalize_no_handle(IF uses = Null THEN Put(obj, "usesX", False) ELSE obj)

\* Lines 90-107, uses being obj.get("usesX") and handle _extract_handle(xh).
normalize_x_fields_with(obj, uses, handle) ==
  IF uses = False
  THEN Put(obj, "xHandle", Null)
  ELSE IF Truthy(handle)
  THEN IF uses = Null
       THEN Put(Put(obj, "xHandle", Str(<<"@">> \o StrOf(handle))), "usesX", True)
       ELSE Put(obj, "xHandle", Str(<<"@">> \o StrOf(handle)))
  ELSE normalize_no_handle(IF uses = Null THEN Put(obj, "usesX", False) ELSE obj)

\* Lines 81-107
normalize_x_fields(obj) ==
  IF ~IsDict(obj) THEN obj
  ELSE normalize_x_fields_with(obj, Get(obj, "usesX"), extract_handle(Get(obj, "xHandle")))

----------------------------------------------------------------------------
(* csv_to_json.py: the field normalisers *)

\* raw is a str or None
normalize_x_handle(raw) ==
  IF ~Truthy(raw) THEN Null
  ELSE LET s == Strip(StrOf(raw)) IN
    IF s = <<>> THEN Null
    ELSE IF StartsWith(s, <<"@">>) THEN Str(s)
    ELSE Str(<<"@">> \o s)

----------------------------------------------------------------------------
(* Bounds and input domains *)

\* Longest base list (meps_all.json) of a run.
MaxBase == 2

\* Most raw rows (bindings) a merge loop reads.
MaxRows == 2

\* Most CSV rows csv_to_json reads.
MaxCsvRows == 1

\* Marks a key an input object does not have (never a value of the program).
Absent == <<"absent">>

\* The object holding the keys of f whose value is not Absent.
MkObj(f) == [k \in {j \in DOMAIN f : f[j] # Absent} |-> f[k]]

SeqsUpTo(S, n) == UNION {[1..k -> S] : k \in 0..n}

MepIds == {Str(<<"m","e","p","_","1">>), Str(<<"m","e","p","_","2">>)}

\* Base records: an id, and the usesX / xHandle pairs the normaliser tells
\* apart; an element that is no object; an object whose id is a list.
BaseRecords ==
  {MkObj([id |-> d, usesX |-> ux[1], xHandle |-> ux[2]]) :
     d \in MepIds,
     ux \in {<<Absent, Absent>>, <<Absent, Str(<<"h">>)>>, <<True, Absent>>,
             <<False, Str(<<"@","h">>)>>}} \cup
  {NonDict(Int("42")), [id |-> List(<<"a">>)]}

\* Override entries: a non-object value, or an object with any of id, usesX, xHandle.
OverrideEntries ==
  {[isdict |-> FALSE, items |-> EmptyObj]} \cup
  {[isdict |-> TRUE, items |-> MkObj([id |-> d, usesX |-> u, xHandle |-> x])] :
     d \in {Absent, Str(<<"m","e","p","_","2">>)}, u \in {Absent, False}, x \in {Absent, Str(<<"@","g">>)}}

\* The overrides mapping in iteration order: distinct keys.
OverrideMaps ==
  {o \in SeqsUpTo([mep_id : MepIds, override_data : OverrideEntries], Cardinality(MepIds)) :
     \A j, k \in 1..Len(o) : j # k => o[j].mep_id # o[k].mep_id}

Shapes == [base : {"list", "other"}, overrides : {"dict", "other"}]

OkShape == [base |-> "list", overrides |-> "dict"]

Diag(kind, key) == [kind |-> kind, key |-> key]

----------------------------------------------------------------------------
(* apply_meps_overrides.py: main *)

InitOverrides ==
  /\ prog = "apply_meps_overrides"
  /\ pc = "validate"
  /\ shape \in Shapes
  /\ base_data \in (IF shape.base = "list" THEN SeqsUpTo(BaseRecords, MaxBase) ELSE {<<>>})
  /\ overrides \in (IF shape = OkShape THEN OverrideMaps ELSE {<<>>})
  /\ index = EmptyObj
  /\ i = 0
  /\ diag = <<>>
  /\ output = <<>>
  /\ r = EmptyObj /\ mps = <<>> /\ data = <<>> /\ arg = Null /\ ret = Null

\* Where the run stands once the base pass that precedes phase p is over: a
\* loop over an empty list is no step.
PhaseFrom(p, nbase) ==
  IF p = "index" /\ nbase > 0 THEN "index"
  ELSE IF p \in {"index", "normalize"} /\ nbase > 0 THEN "normalize"
  ELSE IF p \in {"index", "normalize", "overrides"} /\ Len(overrides) > 0 THEN "overrides"
  ELSE "write"

\* One iteration done at place k of a loop over n items: the next iteration, or
\* the phase after.
AfterIteration(k, n, nextPhase, nbase) ==
  IF k < n THEN /\ pc' = pc /\ i' = k + 1
  ELSE /\ pc' = PhaseFrom(nextPhase, nbase) /\ i' = 1

\* Lines 40-43: a base that is no list or overrides that are no dict end the run.
Validate ==
  /\ prog = "apply_meps_overrides" /\ pc = "validate"
  /\ IF shape.base # "list" \/ shape.overrides # "dict"
     THEN /\ pc' = "error" /\ i' = i
          /\ diag' = Append(diag, Diag("fatal", Null))
     ELSE /\ pc' = PhaseFrom("index", Len(base_data)) /\ i' = 1
          /\ diag' = diag
  /\ UNCHANGED <<prog, shape, base_data, overrides, index, output, r, mps, data, arg, ret>>

\* index[obj_id] = obj, the object named by its place in base_data.
IndexPut(idx, key, pos) == [k \in DOMAIN idx \cup {key} |-> IF k = key THEN pos ELSE idx[k]]

\* Lines 48-50: obj.get raises AttributeError on an element that is no object,
\* and `obj_id in index` raises TypeError on an id that cannot be hashed.
IndexRaises(obj) ==
  \/ ~IsDict(obj)
  \/ (Truthy(Get(obj, "id")) /\ ~Hashable(Get(obj, "id")))

\* Lines 47-52: the exception is not caught and ends the run with a traceback.
IndexCrash ==
  /\ prog = "apply_meps_overrides" /\ pc = "index"
  /\ IndexRaises(base_data[i])
  /\ pc' = "error"
  /\ diag' = Append(diag, Diag("exception", Null))
  /\ UNCHANGED <<prog, shape, base_data, overrides, index, i, output, r, mps, data, arg, ret>>

\* Lines 47-52: one iteration of the indexing loop.
IndexStep ==
  /\ prog = "apply_meps_overrides" /\ pc = "index"
  /\ ~IndexRaises(base_data[i])
  /\ LET obj_id == Get(base_data[i], "id") IN
     IF Truthy(obj_id)
     THEN /\ diag' = IF obj_id \in DOMAIN index
                     THEN Append(diag, Diag("duplicate_id", obj_id)) ELSE diag
          /\ index' = IndexPut(index, obj_id, i)
     ELSE /\ diag' = diag /\ index' = index
  /\ AfterIteration(i, Len(base_data), "normalize", Len(base_data))
  /\ UNCHANGED <<prog, shape, base_data, overrides, output, r, mps, data, arg, ret>>

\* Lines 110-111: one iteration of the normalising pass over the base records.
NormalizeStep ==
  /\ prog = "apply_meps_overrides" /\ pc = "normalize"
  /\ base_data' = [base_data EXCEPT ![i] = normalize_x_fields(@)]
  /\ AfterIteration(i, Len(base_data), "overrides", Len(base_data))
  /\ UNCHANGED <<prog, shape, overrides, index, diag, output, r, mps, data, arg, ret>>

\* A plausible slip: the `continue` is lost and the entry falls through to the stub branch.
OverrideSkip_FallsThrough ==
  /\ prog = "apply_meps_overrides" /\ pc = "overrides"
  /\ ~overrides[i].override_data.isdict
  /\ diag' = Append(diag, Diag("not_an_object", overrides[i].mep_id))
  /\ base_data' = Append(base_data, [id |-> overrides[i].mep_id])
  /\ index' = IndexPut(index, overrides[i].mep_id, Len(base_data) + 1)
  /\ AfterIteration(i, Len(overrides), "write", 0)
  /\ UNCHANGED <<prog, shape, overrides, output, r, mps, data, arg, ret>>

\* Lines 115-117: an entry that is no object is reported and skipped.
OverrideSkip ==
  /\ prog = "apply_meps_overrides" /\ pc = "overrides"
  /\ ~overrides[i].override_data.isdict
  /\ diag' = Append(diag, Diag("not_an_object", overrides[i].mep_id))
  /\ AfterIteration(i, Len(overrides), "write", 0)
  /\ UNCHANGED <<prog, shape, base_data, overrides, index, output, r, mps, data, arg, ret>>

\* Lines 119-124: every key of the entry is written onto the indexed object.
OverrideExisting ==
  /\ prog = "apply_meps_overrides" /\ pc = "overrides"
  /\ overrides[i].override_data.isdict
  /\ overrides[i].mep_id \in DOMAIN index
  /\ diag' = Append(diag, Diag("applying_override", overrides[i].mep_id))
  /\ base_data' = [base_data EXCEPT ![index[overrides[i].mep_id]] =
                     Update(@, overrides[i].override_data.items)]
  /\ AfterIteration(i, Len(overrides), "write", 0)
  /\ UNCHANGED <<prog, shape, overrides, index, output, r, mps, data, arg, ret>>

\* Lines 125-131: new_obj = {"id": mep_id}; new_obj.update(override_data); append; index.
OverrideStub ==
  /\ prog = "apply_meps_overrides" /\ pc = "overrides"
  /\ overrides[i].override_data.isdict
  /\ overrides[i].mep_id \notin DOMAIN index
  /\ diag' = Append(diag, Diag("creating_stub", overrides[i].mep_id))
  /\ base_data' = Append(base_data,
                         Update([id |-> overrides[i].mep_id], overrides[i].override_data.items))
  /\ index' = IndexPut(index, overrides[i].mep_id, Len(base_data) + 1)
  /\ AfterIteration(i, Len(overrides), "write", 0)
  /\ UNCHANGED <<prog, shape, overrides, output, r, mps, data, arg, ret>>

\* Lines 134-138: the merged list is written out.
WriteOutput ==
  /\ prog = "apply_meps_overrides" /\ pc = "write"
  /\ output' = base_data
  /\ diag' = Append(diag, Diag("wrote", Null))
  /\ pc' = "done"
  /\ UNCHANGED <<prog, shape, base_data, overrides, index, i, r, mps, data, arg, ret>>

NextOverrides ==
  \/ Validate
  \/ IndexStep
  \/ IndexCrash
  \/ NormalizeStep
  \/ OverrideSkip
  \/ OverrideExisting
  \/ OverrideStub
  \/ WriteOutput

SpecOverrides == InitOverrides /\ [][NextOverrides]_vars

----------------------------------------------------------------------------
(* An insertion-ordered dict (mps): a sequence of key / value pairs. *)

MpsKeys(m) == {m[k].key : k \in 1..Len(m)}

MpsPos(m, q) == CHOOSE k \in 1..Len(m) : m[k].key = q

MpsGet(m, q) == m[MpsPos(m, q)].val

MpsPut(m, q, v) ==
  IF q \in MpsKeys(m)
  THEN [m EXCEPT ![MpsPos(m, q)] = [key |-> q, val |-> v]]
  ELSE Append(m, [key |-> q, val |-> v])

\* list(mps.values())
MpsValues(m) == [k \in 1..Len(m) |-> m[k].val]

\* dict.get(k, default) on a table of strings
Lookup(table, k, default) == IF k \in DOMAIN table THEN table[k] ELSE default

Qids == {Str(<<"Q","1">>), Str(<<"Q","2">>)}

----------------------------------------------------------------------------
(* deduplicate_mps_de.py *)

PARTY_MAP ==
     (<<"S","o","z","i","a","l","d","e","m","o","k","r","a","t","i","s","c","h","e"," ","P","a","r","t","e","i"," ","D","e","u","t","s","c","h","l","a","n","d","s">> :> <<"s","p","d">>)
  @@ (<<"C","h","r","i","s","t","l","i","c","h"," ","D","e","m","o","k","r","a","t","i","s","c","h","e"," ","U","n","i","o","n">> :> <<"c","d","u">>)
  @@ (<<"C","h","r","i","s","t","l","i","c","h","-","S","o","z","i","a","l","e"," ","U","n","i","o","n"," ","i","n"," ","B","a","y","e","r","n">> :> <<"c","s","u">>)
  @@ (<<"B","uuml","n","d","n","i","s"," ","9","0","/","D","i","e"," ","G","r","uuml","n","e","n">> :> <<"g","r","u","e","n","e">>)
  @@ (<<"D","i","e"," ","G","r","uuml","n","e","n">> :> <<"g","r","u","e","n","e">>)
  @@ (<<"F","r","e","i","e"," ","D","e","m","o","k","r","a","t","i","s","c","h","e"," ","P","a","r","t","e","i">> :> <<"f","d","p">>)
  @@ (<<"A","l","t","e","r","n","a","t","i","v","e"," ","f","uuml","r"," ","D","e","u","t","s","c","h","l","a","n","d">> :> <<"a","f","d">>)
  @@ (<<"D","i","e"," ","L","i","n","k","e">> :> <<"l","i","n","k","e">>)
  @@ (<<"P","a","r","t","e","i"," ","d","e","s"," ","D","e","m","o","k","r","a","t","i","s","c","h","e","n"," ","S","o","z","i","a","l","i","s","m","u","s">> :> <<"l","i","n","k","e">>)
  @@ (<<"A","r","b","e","i","t"," ","&"," ","s","o","z","i","a","l","e"," ","G","e","r","e","c","h","t","i","g","k","e","i","t"," ","endash"," ","D","i","e"," ","W","a","h","l","a","l","t","e","r","n","a","t","i","v","e">> :> <<"l","i","n","k","e">>)
  @@ (<<"B","uuml","n","d","n","i","s"," ","S","a","h","r","a"," ","W","a","g","e","n","k","n","e","c","h","t"," ","endash"," ","V","e","r","n","u","n","f","t"," ","u","n","d"," ","G","e","r","e","c","h","t","i","g","k","e","i","t">> :> <<"b","s","w">>)

\* Raw rows: the key, a name or none, and at most one of the three field
\* blocks (party, email, X) the loop body handles one after the other, each
\* reading only its own keys of the row.
DedupBlocks ==
  {[party |-> p, email |-> Absent, usesX |-> Absent, xHandle |-> Absent] :
     p \in {Absent, Str(<<"D","i","e"," ","L","i","n","k","e">>), Str(<<"D","i","e"," ","L","i","n","k","e"," ">>), Str(<<"V","o","l","t">>)}}
  \cup {[party |-> Absent, email |-> e, usesX |-> Absent, xHandle |-> Absent] :
     e \in {Str(<<"a","@","b",".","d","e">>), Str(<<"m","a","i","l","t","o",":","c","@","d",".","d","e">>)}}
  \cup {[party |-> Absent, email |-> Absent, usesX |-> ux[1], xHandle |-> ux[2]] :
     ux \in {<<True, Absent>>, <<Str(<<"1">>), Str(<<"@","h">>)>>, <<True, Str(<<"@","g">>)>>,
             <<False, Str(<<"@","h">>)>>, <<Absent, Str(<<"@","g">>)>>}}

DedupRows ==
  {MkObj([qid |-> q, name |-> n, party |-> blk.party, email |-> blk.email,
          usesX |-> blk.usesX, xHandle |-> blk.xHandle]) :
     q \in Qids, n \in {Absent, Str(<<"A","n","n">>), Str(<<"B","o","b">>)}, blk \in DedupBlocks}

\* Lines 31-44: the base object of a qid first seen.
dedup_new(row) ==
  [id |-> Str(<<"m","p","_","d","e","_">> \o StrOf(row.qid)), qid |-> row.qid, name |-> Get(row, "name"),
   country |-> Str(<<"G","e","r","m","a","n","y">>), countryCode |-> Str(<<"D","E">>), level |-> Str(<<"n","a","t","i","o","n","a","l">>),
   institution |-> Str(<<"B","u","n","d","e","s","t","a","g">>), role |-> Str(<<"M","P">>),
   party |-> Null, email |-> Null, usesX |-> False, xHandle |-> Null]

\* A plausible slip: the `and not mps[qid]["party"]` guard is lost.
dedup_party_Overwrites(rec, row) ==
  LET party_label == Get(row, "party") IN
  IF Truthy(party_label)
  THEN [rec EXCEPT !.party = Str(Lookup(PARTY_MAP, StrOf(party_label), StrOf(party_label)))]
  ELSE rec

\* Lines 47-49
dedup_party(rec, row) ==
  LET party_label == Get(row, "party") IN
  IF Truthy(party_label) /\ ~Truthy(rec.party)
  THEN [rec EXCEPT !.party = Str(Lookup(PARTY_MAP, StrOf(party_label), StrOf(party_label)))]
  ELSE rec

\* Lines 52-56
dedup_email(rec, row) ==
  LET email == Get(row, "email") IN
  IF Truthy(email) /\ ~Truthy(rec.email)
  THEN [rec EXCEPT !.email =
          IF StartsWith(StrOf(email), <<"m","a","i","l","t","o",":">>)
          THEN Str(RemoveAll(StrOf(email), <<"m","a","i","l","t","o",":">>)) ELSE email]
  ELSE rec

\* Lines 59-63
dedup_x(rec, row) ==
  LET uses_x == Get(row, "usesX") \in {Str(<<"1">>), Int("1"), True} IN
  IF uses_x
  THEN LET r1 == [rec EXCEPT !.usesX = True] IN
       IF ~Truthy(r1.xHandle) /\ Truthy(Get(row, "xHandle"))
       THEN [r1 EXCEPT !.xHandle = row.xHandle] ELSE r1
  ELSE rec

\* Lines 26-63: one iteration of the loop over the raw rows.
DedupRow ==
  /\ prog = "deduplicate_mps_de" /\ pc = "rows"
  /\ i < MaxRows
  /\ \E row \in DedupRows :
       LET rec0 == IF row.qid \in MpsKeys(mps) THEN MpsGet(mps, row.qid) ELSE dedup_new(row)
       IN /\ r' = row
          /\ mps' = MpsPut(mps, row.qid, dedup_x(dedup_email(dedup_party(rec0, row), row), row))
  /\ i' = i + 1
  /\ UNCHANGED <<prog, pc, shape, base_data, overrides, index, diag, output, data, arg, ret>>

\* Lines 65-74: clean = list(mps.values()) is written out.
DedupFinish ==
  /\ prog = "deduplicate_mps_de" /\ pc = "rows"
  /\ output' = MpsValues(mps)
  /\ pc' = "done"
  /\ UNCHANGED <<prog, shape, base_data, overrides, index, i, diag, r, mps, data, arg, ret>>

InitRun(p, start) ==
  /\ prog = p /\ pc = start
  /\ shape = OkShape /\ base_data = <<>> /\ overrides = <<>> /\ index = EmptyObj
  /\ i = 0 /\ diag = <<>> /\ output = <<>>
  /\ r = EmptyObj /\ mps = <<>> /\ data = <<>>

InitDedup == InitRun("deduplicate_mps_de", "rows") /\ arg = Null /\ ret = Null

----------------------------------------------------------------------------
(* get_de_mps_wikidata.py: main, from the bindings on (lines 55-92).  A    *)
(* binding maps a variable to its value; b[var]["value"] is b[var] here.   *)

WikidataBlocks ==
  {[partyName |-> p, email |-> Absent, x |-> Absent] :
     p \in {Absent, Str(<<"S","P","D">>), Str(<<"C","D","U">>), Str(<<>>)}}
  \cup {[partyName |-> Absent, email |-> e, x |-> Absent] :
     e \in {Str(<<"a","@","b",".","d","e">>), Str(<<"c","@","d",".","d","e">>)}}
  \cup {[partyName |-> Absent, email |-> Absent, x |-> x] : x \in {Str(<<"h">>), Str(<<"g">>)}}

Bindings ==
  {MkObj([qid |-> q, name |-> nm[1], personLabel |-> nm[2], partyName |-> blk.partyName,
          email |-> blk.email, x |-> blk.x]) :
     q \in Qids,
     nm \in {<<Absent, Absent>>, <<Str(<<"A","n","n">>), Absent>>, <<Absent, Str(<<"B","o","b">>)>>},
     blk \in WikidataBlocks}

\* Line 62: b.get("name", {}).get("value") or b.get("personLabel", {}).get("value")
wikidata_name(b) == IF Truthy(Get(b, "name")) THEN b.name ELSE Get(b, "personLabel")

\* Lines 65-77
wikidata_new(b) ==
  [id |-> Str(<<"m","p","_","d","e","_">> \o StrOf(b.qid)), name |-> wikidata_name(b),
   country |-> Str(<<"G","e","r","m","a","n","y">>), countryCode |-> Str(<<"D","E">>), level |-> Str(<<"n","a","t","i","o","n","a","l">>),
   institution |-> Str(<<"B","u","n","d","e","s","t","a","g">>), role |-> Str(<<"M","P">>),
   party |-> Null, email |-> Null, usesX |-> False, xHandle |-> Null]

\* Lines 80-81
wikidata_party(rec, b) ==
  IF ~Truthy(rec.party) /\ "partyName" \in DOMAIN b
  THEN [rec EXCEPT !.party = b.partyName] ELSE rec

\* Lines 83-84
wikidata_email(rec, b) ==
  IF ~Truthy(rec.email) /\ "email" \in DOMAIN b
  THEN [rec EXCEPT !.email = b.email] ELSE rec

\* Lines 86-89
wikidata_x(rec, b) ==
  IF ~Truthy(rec.usesX) /\ "x" \in DOMAIN b
  THEN [rec EXCEPT !.usesX = True, !.xHandle = Str(<<"@">> \o StrOf(b.x))]
  ELSE rec

\* Lines 60-89: one iteration of the loop over the bindings.
WikidataRow ==
  /\ prog = "get_de_mps_wikidata" /\ pc = "rows"
  /\ i < MaxRows
  /\ \E b \in Bindings :
       LET rec0 == IF b.qid \in MpsKeys(mps) THEN MpsGet(mps, b.qid) ELSE wikidata_new(b)
       IN /\ r' = b
          /\ mps' = MpsPut(mps, b.qid, wikidata_x(wikidata_email(wikidata_party(rec0, b), b), b))
  /\ i' = i + 1
  /\ UNCHANGED <<prog, pc, shape, base_data, overrides, index, diag, output, data, arg, ret>>

\* Lines 91-92: final_list = list(mps.values())
WikidataFinish ==
  /\ prog = "get_de_mps_wikidata" /\ pc = "rows"
  /\ output' = MpsValues(mps)
  /\ pc' = "done"
  /\ UNCHANGED <<prog, shape, base_data, overrides, index, i, diag, r, mps, data, arg, ret>>

InitWikidata == InitRun("get_de_mps_wikidata", "rows") /\ arg = Null /\ ret = Null

InitMerge == InitDedup \/ InitWikidata

NextMerge ==
  \/ DedupRow
  \/ DedupFinish
  \/ WikidataRow
  \/ WikidataFinish

SpecMerge == InitMerge /\ [][NextMerge]_vars

----------------------------------------------------------------------------
(* csv_to_json.py *)

EU_COUNTRY_CODES ==
     (<<"A","u","s","t","r","i","a">> :> <<"A","T">>)
  @@ (<<"B","e","l","g","i","u","m">> :> <<"B","E">>)
  @@ (<<"B","u","l","g","a","r","i","a">> :> <<"B","G">>)
  @@ (<<"C","r","o","a","t","i","a">> :> <<"H","R">>)
  @@ (<<"C","y","p","r","u","s">> :> <<"C","Y">>)
  @@ (<<"C","z","e","c","h"," ","R","e","p","u","b","l","i","c">> :> <<"C","Z">>)
  @@ (<<"C","z","e","c","h","i","a">> :> <<"C","Z">>)
  @@ (<<"D","e","n","m","a","r","k">> :> <<"D","K">>)
  @@ (<<"E","s","t","o","n","i","a">> :> <<"E","E">>)
  @@ (<<"F","i","n","l","a","n","d">> :> <<"F","I">>)
  @@ (<<"F","r","a","n","c","e">> :> <<"F","R">>)
  @@ (<<"G","e","r","m","a","n","y">> :> <<"D","E">>)
  @@ (<<"G","r","e","e","c","e">> :> <<"G","R">>)
  @@ (<<"H","u","n","g","a","r","y">> :> <<"H","U">>)
  @@ (<<"I","r","e","l","a","n","d">> :> <<"I","E">>)
  @@ (<<"I","t","a","l","y">> :> <<"I","T">>)
  @@ (<<"L","a","t","v","i","a">> :> <<"L","V">>)
  @@ (<<"L","i","t","h","u","a","n","i","a">> :> <<"L","T">>)
  @@ (<<"L","u","x","e","m","b","o","u","r","g">> :> <<"L","U">>)
  @@ (<<"M","a","l","t","a">> :> <<"M","T">>)
  @@ (<<"N","e","t","h","e","r","l","a","n","d","s">> :> <<"N","L">>)
  @@ (<<"P","o","l","a","n","d">> :> <<"P","L">>)
  @@ (<<"P","o","r","t","u","g","a","l">> :> <<"P","T">>)
  @@ (<<"R","o","m","a","n","i","a">> :> <<"R","O">>)
  @@ (<<"S","l","o","v","a","k","i","a">> :> <<"S","K">>)
  @@ (<<"S","l","o","v","e","n","i","a">> :> <<"S","I">>)
  @@ (<<"S","p","a","i","n">> :> <<"E","S">>)
  @@ (<<"S","w","e","d","e","n">> :> <<"S","E">>)

EU_GROUP_MAP ==
     (<<"G","r","o","u","p"," ","o","f"," ","t","h","e"," ","E","u","r","o","p","e","a","n"," ","P","e","o","p","l","e","'","s"," ","P","a","r","t","y"," ","(","C","h","r","i","s","t","i","a","n"," ","D","e","m","o","c","r","a","t","s",")">> :> <<"E","P","P">>)
  @@ (<<"G","r","o","u","p"," ","o","f"," ","t","h","e"," ","P","r","o","g","r","e","s","s","i","v","e"," ","A","l","l","i","a","n","c","e"," ","o","f"," ","S","o","c","i","a","l","i","s","t","s"," ","a","n","d"," ","D","e","m","o","c","r","a","t","s"," ","i","n"," ","t","h","e"," ","E","u","r","o","p","e","a","n"," ","P","a","r","l","i","a","m","e","n","t">> :> <<"S","&","D">>)
  @@ (<<"R","e","n","e","w"," ","E","u","r","o","p","e"," ","G","r","o","u","p">> :> <<"R","e","n","e","w">>)
  @@ (<<"G","r","o","u","p"," ","o","f"," ","t","h","e"," ","G","r","e","e","n","s","/","E","u","r","o","p","e","a","n"," ","F","r","e","e"," ","A","l","l","i","a","n","c","e">> :> <<"G","r","e","e","n","s","/","E","F","A">>)
  @@ (<<"E","u","r","o","p","e","a","n"," ","C","o","n","s","e","r","v","a","t","i","v","e","s"," ","a","n","d"," ","R","e","f","o","r","m","i","s","t","s"," ","G","r","o","u","p">> :> <<"E","C","R">>)
  @@ (<<"I","d","e","n","t","i","t","y"," ","a","n","d"," ","D","e","m","o","c","r","a","c","y"," ","G","r","o","u","p">> :> <<"I","D">>)
  @@ (<<"T","h","e"," ","L","e","f","t"," ","g","r","o","u","p"," ","i","n"," ","t","h","e"," ","E","u","r","o","p","e","a","n"," ","P","a","r","l","i","a","m","e","n","t"," ","-"," ","G","U","E","/","N","G","L">> :> <<"T","h","e"," ","L","e","f","t">>)
  @@ (<<"N","o","n","-","a","t","t","a","c","h","e","d"," ","M","e","m","b","e","r","s">> :> <<"N","I">>)

\* Lines 51-55
map_eu_group_to_short(name) ==
  IF ~Truthy(name) THEN Null
  ELSE Str(Lookup(EU_GROUP_MAP, Strip(StrOf(name)), Strip(StrOf(name))))

\* Lines 58-65: the code, and whether the lookup warns.
country_to_code(country) ==
  IF ~Truthy(country) THEN [code |-> Null, warn |-> FALSE]
  ELSE LET c == Strip(StrOf(country)) IN
    IF c \in DOMAIN EU_COUNTRY_CODES
    THEN [code |-> Str(EU_COUNTRY_CODES[c]), warn |-> FALSE]
    ELSE [code |-> Null, warn |-> TRUE]

\* Lines 68-75
normalize_name(name) ==
  IF ~Truthy(name) THEN Str(<<>>)
  ELSE LET s == Strip(StrOf(name)) IN
    IF StartsWith(s, <<"H","o","m","e">>) THEN Str(Strip(SubSeq(s, 5, Len(s)))) ELSE Str(s)

\* (row.get(k) or "").strip()
Stripped(row, k) == IF Truthy(Get(row, k)) THEN Strip(StrOf(row[k])) ELSE <<>>

\* The columns of one CSV row; csv.DictReader gives every column a str.
CsvRows ==
  [mep_id : {Str(<<>>), Str(<<" ","7">>)},
   name : {Str(<<>>), Str(<<"H","o","m","e"," ","A","n","n"," ","L","e","e"," ">>)},
   country : {Str(<<>>), Str(<<"G","e","r","m","a","n","y">>), Str(<<" ","R","u","r","i","t","a","n","i","a">>)},
   x_url : {Str(<<>>), Str(<<"h","t","t","p","s",":","/","/","x",".","c","o","m","/","h">>)},
   x_handle : {Str(<<>>), Str(<<"h">>), Str(<<"@","h">>)},
   email : {Str(<<>>), Str(<<" ","a","@","b",".","e","u">>)},
   political_group : {Str(<<>>), Str(<<"R","e","n","e","w"," ","E","u","r","o","p","e"," ","G","r","o","u","p">>), Str(<<" ","R","e","n","e","w"," ","E","u","r","o","p","e"," ","G","r","o","u","p"," ">>),
                      Str(<<"V","o","l","t">>)}]

\* Line 120: "party": political_group (eu_group_short, line 108, is not used).
csv_party(political_group, eu_group_short) == political_group

\* Lines 95-125: the object built for one row.
mep_obj(row) ==
  LET mep_id == Strip(StrOf(Get(row, "mep_id")))
      name == normalize_name(Get(row, "name"))
      country == OrNone(Stripped(row, "country"))
      country_code == IF Truthy(country) THEN country_to_code(country).code ELSE Null
      x_url == Stripped(row, "x_url")
      x_handle_raw == Stripped(row, "x_handle")
      uses_x == x_url # <<>>
      x_handle == IF uses_x THEN normalize_x_handle(Str(x_handle_raw)) ELSE Null
      email == OrNone(Stripped(row, "email"))
      political_group == OrNone(Stripped(row, "political_group"))
      eu_group_short == map_eu_group_to_short(political_group)
  IN [id |-> IF mep_id # <<>> THEN Str(<<"m","e","p","_">> \o mep_id) ELSE Null,
      name |-> IF Truthy(name) THEN name ELSE Null,
      country |-> country,
      countryCode |-> country_code,
      level |-> Str(<<"e","u">>),
      institution |-> Str(<<"E","u","r","o","p","e","a","n"," ","P","a","r","l","i","a","m","e","n","t">>),
      role |-> Str(<<"M","E","P">>),
      party |-> csv_party(political_group, eu_group_short),
      euGroupFull |-> political_group,
      email |-> email,
      usesX |-> IF uses_x THEN True ELSE False,
      xHandle |-> x_handle]

\* Lines 94-127: one iteration of the loop over the CSV rows.
CsvRow ==
  /\ prog = "csv_to_json" /\ pc = "rows"
  /\ i < MaxCsvRows
  /\ \E row \in CsvRows :
       LET country == OrNone(Stripped(row, "country")) IN
       /\ r' = row
       /\ data' = Append(data, mep_obj(row))
       /\ diag' = IF Truthy(country) /\ country_to_code(country).warn
                  THEN Append(diag, Diag("no_country_code", country)) ELSE diag
  /\ i' = i + 1
  /\ UNCHANGED <<prog, pc, shape, base_data, overrides, index, output, mps, arg, ret>>

\* Lines 129-132: data is written out.
CsvFinish ==
  /\ prog = "csv_to_json" /\ pc = "rows"
  /\ output' = data
  /\ pc' = "done"
  /\ UNCHANGED <<prog, shape, base_data, overrides, index, i, diag, r, mps, data, arg, ret>>

InitCsv == InitRun("csv_to_json", "rows") /\ arg = Null /\ ret = Null

----------------------------------------------------------------------------
(* The field normalisers on their own: one call on one argument. *)

Hosts == {<<"x",".","c","o","m">>, <<"t","w","i","t","t","e","r",".","c","o","m">>, <<"m","o","b","i","l","e",".","t","w","i","t","t","e","r",".","c","o","m">>, <<"X",".","c","o","m">>, <<"n","o","t","x",".","c","o","m">>,
          <<"n","o","t","t","w","i","t","t","e","r",".","c","o","m">>, <<"e","x","a","m","p","l","e",".","o","r","g">>, <<"x",".","c","o","m",".","e","v","i","l",".","i","o">>}

Paths == {<<>>, <<"/">>, <<"/","a","n","n">>, <<"/","a","n","n","/">>, <<"/","a","n","n","/","s","t","a","t","u","s","/","1">>, <<"/","@","a","n","n">>, <<"/","h","o","m","e">>, <<"/","s","h","a","r","e">>,
          <<"/","i","n","t","e","n","t","/","u","s","e","r">>, <<"/","i","n","t","e","n","t","/","f","o","l","l","o","w">>}

Queries == {<<>>, <<"?","s","c","r","e","e","n","_","n","a","m","e","=","p","o","l","i","c","y","W","o","n","k">>}

Urls == {<<"h","t","t","p","s",":","/","/">> \o h \o p \o q : h \in Hosts, p \in Paths, q \in Queries}

BareHandles == {<<>>, <<" ">>, <<"a","n","n">>, <<"@","a","n","n">>, <<" ","@","a","n","n"," ">>, <<"@","@","a","n","n">>, <<"@"," ","@","a","n","n">>, <<"@"," ","a","n","n">>,
                <<"@">>, <<"a","n","n"," ","l","e","e">>, <<"x",".","c","o","m","/","a","n","n">>, <<"s","o","m","e","o","n","e">>, <<"@","s","o","m","e","o","n","e">>}

\* What an xHandle may hold: a str, null, or a value that is no str.
HandleValues == {Str(s) : s \in BareHandles \cup Urls} \cup {Null, Int("1")}

FieldObjs ==
  {MkObj([usesX |-> u, xHandle |-> x]) :
     u \in {Absent, Null, True, False}, x \in HandleValues \cup {Absent}}

InitFields ==
  \/ InitRun("normalize_x_fields", "call") /\ arg \in FieldObjs /\ ret = Null
  \/ InitRun("extract_handle", "call") /\ arg \in HandleValues /\ ret = Null
  \/ InitRun("normalize_x_handle", "call") /\ arg \in HandleValues \ {Int("1")} /\ ret = Null

\* apply_meps_overrides.py lines 81-107 on one object.
CallNormalizeXFields ==
  /\ prog = "normalize_x_fields" /\ pc = "call"
  /\ ret' = normalize_x_fields(arg)
  /\ pc' = "done"
  /\ UNCHANGED <<prog, shape, base_data, overrides, index, i, diag, output, r, mps, data, arg>>

\* apply_meps_overrides.py lines 54-78 on one value.
CallExtractHandle ==
  /\ prog = "extract_handle" /\ pc = "call"
  /\ ret' = extract_handle(arg)
  /\ pc' = "done"
  /\ UNCHANGED <<prog, shape, base_data, overrides, index, i, diag, output, r, mps, data, arg>>

\* csv_to_json.py lines 78-86 on one value.
CallNormalizeXHandle ==
  /\ prog = "normalize_x_handle" /\ pc = "call"
  /\ ret' = normalize_x_handle(arg)
  /\ pc' = "done"
  /\ UNCHANGED <<prog, shape, base_data, overrides, index, i, diag, output, r, mps, data, arg>>

NextFields ==
  \/ CallNormalizeXFields
  \/ CallExtractHandle
  \/ CallNormalizeXHandle

SpecFields == InitFields /\ [][NextFields]_vars

----------------------------------------------------------------------------
(* Any run of any of the scripts *)

Init == InitOverrides \/ InitMerge \/ InitCsv \/ InitFields

Next ==
  \/ Validate
  \/ IndexStep
  \/ IndexCrash
  \/ NormalizeStep
  \/ OverrideSkip
  \/ OverrideExisting
  \/ OverrideStub
  \/ WriteOutput
  \/ DedupRow
  \/ DedupFinish
  \/ WikidataRow
  \/ WikidataFinish
  \/ CsvRow
  \/ CsvFinish
  \/ CallNormalizeXFields
  \/ CallExtractHandle
  \/ CallNormalizeXHandle

Spec == Init /\ [][Next]_vars

----------------------------------------------------------------------------
(* Properties *)

\* The handle / usage invariant of one record.
HandleUsageOk(rec) ==
  /\ Get(rec, "usesX") = False => Get(rec, "xHandle") = Null
  /\ Get(rec, "xHandle") # Null => Get(rec, "usesX") = True

\* C1: every record of the override pipeline's output, and every record the
\* merge loop of deduplicate_mps_de holds, has usesX = false => xHandle = null
\* and xHandle # null => usesX = true.
C1_HandleUsageInvariant ==
  /\ (prog = "apply_meps_overrides" /\ pc = "done")
       => \A k \in 1..Len(output) : HandleUsageOk(output[k])
  /\ prog = "deduplicate_mps_de"
       => \A k \in 1..Len(mps) : HandleUsageOk(mps[k].val)

\* No override entry writes an id.
NoIdOverride ==
  \A j \in 1..Len(overrides) : "id" \notin DOMAIN overrides[j].override_data.items

\* C2: once the overrides are processed, for every override key k whose entry
\* is an object and every field f of the entry, the output's record with id k
\* holds the override's value for f (stated for runs in which no entry
\* rewrites an id, so that only the base list decides which records have id k).
C2_OverrideSupremacy ==
  (prog = "apply_meps_overrides" /\ pc = "done" /\ NoIdOverride)
    => \A j \in 1..Len(overrides) :
         overrides[j].override_data.isdict
           => \A k \in 1..Len(output) :
                Get(output[k], "id") = overrides[j].mep_id
                  => \A f \in DOMAIN overrides[j].override_data.items :
                       Get(output[k], f) = overrides[j].override_data.items[f]

\* The override loop stands at an object entry whose key is not indexed.
AtStubEntry ==
  /\ prog = "apply_meps_overrides" /\ pc = "overrides"
  /\ overrides[i].override_data.isdict
  /\ overrides[i].mep_id \notin DOMAIN index

\* C3: applying an object entry whose key is not in the index adds exactly one
\* record, whose id is the key and whose fields are id plus the entry's fields.
C3_StubCreation ==
  [][AtStubEntry =>
       /\ Len(base_data') = Len(base_data) + 1
       /\ Get(base_data'[Len(base_data')], "id") = overrides[i].mep_id
       /\ DOMAIN base_data'[Len(base_data')] = {"id"} \cup DOMAIN overrides[i].override_data.items
    ]_vars

MergedFields == {"name", "party", "email", "usesX", "xHandle"}

C5_DuplicateMerge ==
  /\ (prog = "apply_meps_overrides" /\ pc = "normalize")
       => \A j, k \in 1..Len(base_data) :
            (j # k /\ Truthy(Get(base_data[j], "id")))
              => Get(base_data[j], "id") # Get(base_data[k], "id")
  /\ (prog = "deduplicate_mps_de" /\ Len(mps) < i)
       => \E n \in 1..Len(diag) : diag[n].kind = "duplicate_id"

PlatformHosts == {<<"x",".","c","o","m">>, <<"t","w","i","t","t","e","r",".","c","o","m">>, <<"m","o","b","i","l","e",".","t","w","i","t","t","e","r",".","c","o","m">>, <<"X",".","c","o","m">>}

ProfileInputs ==
  {<<"a","n","n">>, <<"@","a","n","n">>, <<" ","@","a","n","n"," ">>}
  \cup {<<"h","t","t","p","s",":","/","/">> \o h \o p : h \in PlatformHosts, p \in {<<"/","a","n","n">>, <<"/","a","n","n","/">>, <<"/","a","n","n","/","s","t","a","t","u","s","/","1">>}}

NoHandleInputs ==
  {Absent, Null, Str(<<>>), Str(<<" ">>), Str(<<"@">>), Int("1")}
  \cup {Str(<<"h","t","t","p","s",":","/","/","e","x","a","m","p","l","e",".","o","r","g">> \o p) : p \in Paths}

NonProfilePaths == {<<"/","h","o","m","e">>, <<"/","s","h","a","r","e">>, <<"/","i","n","t","e","n","t","/","u","s","e","r">>, <<"/","i","n","t","e","n","t","/","f","o","l","l","o","w">>}

\* C7: for a URL on the platform's host whose first path segment is home,
\* intent or share, the extractor with its '@' re-prefix returns null, but
\* '@' + screen_name for an intent route carrying a screen_name parameter.
C7_NonProfileRoutes ==
  (prog = "normalize_x_fields" /\ pc = "done" /\ DOMAIN arg = {"xHandle"}) =>
    \A h \in PlatformHosts, p \in NonProfilePaths, q \in Queries :
      arg.xHandle = Str(<<"h","t","t","p","s",":","/","/">> \o h \o p \o q)
        => ret.xHandle = IF StartsWith(p, <<"/","i","n","t","e","n","t">>) /\ q # <<>>
                         THEN Str(<<"@","p","o","l","i","c","y","W","o","n","k">>) ELSE Null

\* '@h' with exactly one leading '@', h non-empty, no whitespace, no "://".
Canonical(v) ==
  /\ v # Null /\ IsStr(v)
  /\ Len(StrOf(v)) >= 2 /\ StrOf(v)[1] = "@" /\ StrOf(v)[2] # "@"
  /\ Range(StrOf(v)) \cap Whitespace = {}
  /\ ~Contains(StrOf(v), <<":","/","/">>)

\* The override pipeline's extractor: _extract_handle and the '@' re-prefix.
N(v) == normalize_x_fields([xHandle |-> v]).xHandle

\* C8: both normalisers return a canonical '@h' unchanged, normalising their
\* output again changes nothing, and a non-null output of normalize_x_handle
\* carries exactly one leading '@'.
C8_HandleIdempotence ==
  /\ (prog = "normalize_x_fields" /\ pc = "done" /\ DOMAIN arg = {"xHandle"}) =>
       /\ Canonical(arg.xHandle) => ret.xHandle = arg.xHandle
       /\ N(ret.xHandle) = ret.xHandle
  /\ (prog = "normalize_x_handle" /\ pc = "done") =>
       /\ Canonical(arg) => ret = arg
       /\ normalize_x_handle(ret) = ret
       /\ ret # Null => (StrOf(ret)[1] = "@" /\ (Len(StrOf(ret)) >= 2 => StrOf(ret)[2] # "@"))

\* C9: the party of the emitted record is the table's short code when the
\* trimmed label is a key of the table, and the trimmed label otherwise: for
\* the record csv_to_json builds from a row (EU_GROUP_MAP) and for the record
\* deduplicate_mps_de builds from a first row (PARTY_MAP).
C9_PartyNormalization ==
  /\ (prog = "csv_to_json" /\ i >= 1 /\ Stripped(r, "political_group") # <<>>)
       => data[Len(data)].party =
            Str(Lookup(EU_GROUP_MAP, Stripped(r, "political_group"),
                       Stripped(r, "political_group")))
  /\ (prog = "deduplicate_mps_de" /\ i = 1 /\ Stripped(r, "party") # <<>>)
       => mps[1].val.party =
            Str(Lookup(PARTY_MAP, Stripped(r, "party"), Stripped(r, "party")))

\* The override loop stands at entry i.
AtEntry == prog = "apply_meps_overrides" /\ pc = "overrides"

\* The diagnostics of the given kinds that name key.
DiagsFor(key, kinds) == {n \in 1..Len(diag) : diag[n].key = key /\ diag[n].kind \in kinds}

\* C10: an override entry that is no object gets a diagnostic and changes no
\* record, no index entry and no count; every object entry is still applied
\* (written onto its indexed record, or appended as a stub); and the run goes
\* on to write the merged list: no run that skipped such an entry ends in
\* error.
C10_MalformedEntrySkipped ==
  /\ [][/\ (AtEntry /\ ~overrides[i].override_data.isdict)
             => /\ base_data' = base_data /\ index' = index /\ output' = output
                /\ diag' = Append(diag, Diag("not_an_object", overrides[i].mep_id))
                /\ pc' \in {"overrides", "write"}
        /\ (AtEntry /\ overrides[i].override_data.isdict /\ overrides[i].mep_id \in DOMAIN index)
             => /\ Len(base_data') = Len(base_data)
                /\ base_data'[index[overrides[i].mep_id]] =
                     Update(base_data[index[overrides[i].mep_id]], overrides[i].override_data.items)
        /\ (AtEntry /\ overrides[i].override_data.isdict /\ overrides[i].mep_id \notin DOMAIN index)
             => Len(base_data') = Len(base_data) + 1
       ]_vars
  /\ []((prog = "apply_meps_overrides" /\ pc = "done") =>
          /\ output = base_data
          /\ \A j \in 1..Len(overrides) :
               IF overrides[j].override_data.isdict
               THEN Cardinality(DiagsFor(overrides[j].mep_id, {"applying_override", "creating_stub"})) = 1
               ELSE /\ Cardinality(DiagsFor(overrides[j].mep_id, {"not_an_object"})) = 1
                    /\ DiagsFor(overrides[j].mep_id, {"applying_override", "creating_stub"}) = {})
  /\ []((prog = "apply_meps_overrides" /\ pc = "error")
          => \A n \in 1..Len(diag) : diag[n].kind # "not_an_object")

\* C10's case: a run that skipped an entry that is no object, applied an
\* object entry after it, and wrote its output.
C10_Witness ==
  /\ prog = "apply_meps_overrides" /\ pc = "done"
  /\ Len(overrides) = 2
  /\ ~overrides[1].override_data.isdict
  /\ overrides[2].override_data.isdict
  /\ Len(output) > 0

\* C11: a base input that is no list, or an overrides input that is no
\* mapping, ends apply_meps_overrides in error with no record normalised or
\* changed, nothing indexed and no output written; and a run ends in error
\* only for one of these two conditions.
C11_TopLevelErrorsFatal ==
  /\ [][(prog = "apply_meps_overrides" /\ shape # OkShape)
          => /\ pc' = "error"
             /\ base_data' = base_data /\ index' = index /\ output' = <<>>
       ]_vars
  /\ []((prog = "apply_meps_overrides" /\ shape # OkShape)
          => (pc \in {"validate", "error"} /\ output = <<>>))
  /\ []((prog = "apply_meps_overrides" /\ pc = "error") => shape # OkShape)

\* The record the override entry at place i writes to, as it is before the
\* iteration: the indexed record, or the stub that carries the key.
OverrideTarget ==
  IF overrides[i].mep_id \in DOMAIN index
  THEN base_data[index[overrides[i].mep_id]]
  ELSE [id |-> overrides[i].mep_id]

\* Where that record stands in base_data after the iteration.
OverrideTargetPos ==
  IF overrides[i].mep_id \in DOMAIN index
  THEN index[overrides[i].mep_id]
  ELSE Len(base_data) + 1

\* C12: in a run of apply_meps_overrides the override loop begins only once
\* the normalising pass has gone over every base record, from the first to
\* the last; and the record an override writes to has been normalised again,
\* after the write, by the time the run goes on to emit the output.
C12_NormalizeOverrideOrdering ==
  [][/\ (prog = "apply_meps_overrides" /\ pc # "overrides" /\ pc' = "overrides")
          => (Len(base_data) = 0 \/ (pc = "normalize" /\ i = Len(base_data)))
     /\ (prog = "apply_meps_overrides" /\ pc # "normalize" /\ pc' = "normalize") => i' = 1
     /\ (prog = "apply_meps_overrides" /\ pc = "normalize")
          => /\ base_data'[i] = normalize_x_fields(base_data[i])
             /\ pc' = "normalize" => i' = i + 1
     /\ (AtEntry /\ overrides[i].override_data.isdict /\ pc' = "write")
          => base_data'[OverrideTargetPos] =
               normalize_x_fields(Update(OverrideTarget, overrides[i].override_data.items))
    ]_vars

\* A platform domain or a subdomain of one, for a host in lower case.
IsPlatformHost(h) ==
  \/ h \in {<<"x",".","c","o","m">>, <<"t","w","i","t","t","e","r",".","c","o","m">>}
  \/ EndsWith(h, <<".","x",".","c","o","m">>)
  \/ EndsWith(h, <<".","t","w","i","t","t","e","r",".","c","o","m">>)

\* C13: for a URL input, _extract_handle returns a handle only if the URL's
\* host, in lower case, is x.com or twitter.com or ends with '.x.com' or
\* '.twitter.com'; for every other host it returns null.
C13_HostValidation ==
  (prog = "extract_handle" /\ pc = "done") =>
    \A h \in Hosts, p \in Paths, q \in Queries :
      (arg = Str(<<"h","t","t","p","s",":","/","/">> \o h \o p \o q) /\ ret # Null) => IsPlatformHost(Lower(h))

====
